---- MODULE Spec2Model ----
(***************************************************************************)
(* Model of the lunch-order bot: the spreadsheet layer (SheetsManager in   *)
(* sheets_manager.py), the date resolver (parse_date_from_message in       *)
(* nlp_parser.py) and the message handler (handle_message in bot.py).      *)
(*                                                                         *)
(* Text is modelled as a sequence of characters, each character a one-     *)
(* token string ("a", "1", "/", " ", "a_acute", ...), so that formatting,  *)
(* trimming, splitting and comparison are computed, not assumed.           *)
(***************************************************************************)
EXTENDS Integers, Sequences, FiniteSets, TLC

VARIABLES
    auto_detect_month,  \* SheetsManager.auto_detect_month
    sheet_name,         \* SheetsManager.sheet_name (<<>> is None)
    spreadsheet,        \* TRUE once SheetsManager.spreadsheet holds a handle
    worksheet,          \* SheetsManager.worksheet: the cached tab handle
    cells,              \* the spreadsheet: tab title -> grid of cell texts
    phase,              \* "new", "connected", "failed" (connect() outcome)
    last,               \* the SheetsManager call made by the latest step
    bot,                \* record of the last message handled by handle_message
    rd,                 \* the date resolver applied to drawn inputs
    app                 \* a lookup or the normaliser applied to drawn inputs

vars == <<auto_detect_month, sheet_name, spreadsheet, worksheet, cells, phase,
          last, bot, rd, app>>

(***************************************************************************)
(* Bounds of the model.                                                    *)
(***************************************************************************)
\* mark_order is called with dates of the months 1..MaxMonth
MaxMonth == 3
\* the reference dates of the resolver range over the years 2024..MaxYear
MaxYear == 2026
\* the classifier's day_number ranges over -1..MaxDayNumber
MaxDayNumber == 32
\* the wall clock is at most MaxDelay days after the message's date
MaxDelay == 1
\* the header rows drawn for get_column_for_date have up to MaxHeaderLen cells
MaxHeaderLen == 2
\* the first columns drawn for get_row_for_user have up to MaxNames cells
MaxNames == 3
\* the texts drawn for remove_vietnamese_accents have up to MaxTextLen characters
MaxTextLen == 3

(***************************************************************************)
(* Text                                                                    *)
(***************************************************************************)
Min(S) == CHOOSE x \in S : \A y \in S : x <= y

\* characters for which Python's str.isspace() holds
Whitespace == {" ", "TAB", "NBSP"}

Digits == <<"0", "1", "2", "3", "4", "5", "6", "7", "8", "9">>

\* str(n), f"{n}" for n >= 0
RECURSIVE Str(_)
Str(n) == IF n < 10 THEN <<Digits[n + 1]>>
          ELSE Str(n \div 10) \o <<Digits[(n % 10) + 1]>>

\* f"{n:02d}", strftime %d and %m
Pad2(n) == IF n < 10 THEN <<"0">> \o Str(n) ELSE Str(n)

\* str.strip()
RECURSIVE LStrip(_)
LStrip(s) == IF s # <<>> /\ Head(s) \in Whitespace THEN LStrip(Tail(s)) ELSE s

RECURSIVE RStrip(_)
RStrip(s) == IF s # <<>> /\ s[Len(s)] \in Whitespace
             THEN RStrip(SubSeq(s, 1, Len(s) - 1)) ELSE s

Strip(s) == RStrip(LStrip(s))

\* str.split() with no argument: the maximal runs of non-whitespace
RECURSIVE SplitFrom(_, _)
SplitFrom(s, cur) ==
    IF s = <<>> THEN (IF cur = <<>> THEN <<>> ELSE <<cur>>)
    ELSE IF Head(s) \in Whitespace
         THEN (IF cur = <<>> THEN <<>> ELSE <<cur>>) \o SplitFrom(Tail(s), <<>>)
         ELSE SplitFrom(Tail(s), Append(cur, Head(s)))

Split(s) == SplitFrom(s, <<>>)

\* a in b, for strings
IsSubstring(a, b) ==
    \E i \in 0..(Len(b) - Len(a)) : SubSeq(b, i + 1, i + Len(a)) = a

\* x in xs, for lists
InList(x, xs) == \E i \in 1..Len(xs) : xs[i] = x

\* str.upper() / str.lower() on the Latin letters
UpperLetters == <<"A", "B", "C", "D", "E", "F", "G", "H", "I", "J", "K", "L", "M",
                  "N", "O", "P", "Q", "R", "S", "T", "U", "V", "W", "X", "Y", "Z">>
LowerLetters == <<"a", "b", "c", "d", "e", "f", "g", "h", "i", "j", "k", "l", "m",
                  "n", "o", "p", "q", "r", "s", "t", "u", "v", "w", "x", "y", "z">>

LowerMap ==
    [c \in {UpperLetters[i] : i \in 1..26} \cup {"D_stroke", "ETH"} |->
        IF c = "D_stroke" THEN "d_stroke"
        ELSE IF c = "ETH" THEN "eth"
        ELSE LowerLetters[CHOOSE i \in 1..26 : UpperLetters[i] = c]]

UpperMap ==
    [c \in {LowerLetters[i] : i \in 1..26} \cup {"d_stroke", "eth"} |->
        IF c = "d_stroke" THEN "D_stroke"
        ELSE IF c = "eth" THEN "ETH"
        ELSE UpperLetters[CHOOSE i \in 1..26 : LowerLetters[i] = c]]

LowerChar(c) == IF c \in DOMAIN LowerMap THEN LowerMap[c] ELSE c

UpperChar(c) == IF c \in DOMAIN UpperMap THEN UpperMap[c] ELSE c

Lower(s) == [i \in 1..Len(s) |-> LowerChar(s[i])]
Upper(s) == [i \in 1..Len(s) |-> UpperChar(s[i])]

(***************************************************************************)
(* remove_vietnamese_accents                                               *)
(***************************************************************************)
\* combining marks: unicodedata.category(char) == "Mn"
Mn == {"ACUTE", "GRAVE", "CIRCUMFLEX", "TILDE", "HOOK", "DOT_BELOW", "HORN"}

\* canonical decomposition of one character (unicodedata.normalize("NFD", .));
\* the crossed-d letters and eth have none
Decompose(c) ==
    CASE c = "a_acute"      -> <<"a", "ACUTE">>
      [] c = "A_acute"      -> <<"A", "ACUTE">>
      [] c = "a_grave"      -> <<"a", "GRAVE">>
      [] c = "a_circumflex" -> <<"a", "CIRCUMFLEX">>
      [] c = "e_circumflex_tilde" -> <<"e", "CIRCUMFLEX", "TILDE">>
      [] c = "E_circumflex_tilde" -> <<"E", "CIRCUMFLEX", "TILDE">>
      [] c = "e_circumflex" -> <<"e", "CIRCUMFLEX">>
      [] c = "i_dot_below"  -> <<"i", "DOT_BELOW">>
      [] c = "o_horn"       -> <<"o", "HORN">>
      [] OTHER              -> <<c>>

RECURSIVE NFD(_)
NFD(s) == IF s = <<>> THEN <<>> ELSE Decompose(Head(s)) \o NFD(Tail(s))

WithoutAccents(s) == SelectSeq(s, LAMBDA c : c \notin Mn)

\* the replacements dict: the letters that do not decompose
ReplaceChar(c) == IF c \in {"d_stroke", "D_stroke", "eth", "ETH"} THEN "d" ELSE c

Replacements(s) == [i \in 1..Len(s) |-> ReplaceChar(s[i])]

remove_vietnamese_accents_StripFirst(text) ==
    Lower(Replacements(WithoutAccents(NFD(Strip(text)))))

remove_vietnamese_accents(text) ==
    Strip(Lower(Replacements(WithoutAccents(NFD(text)))))

(***************************************************************************)
(* Calendar dates (datetime)                                               *)
(***************************************************************************)
IsLeap(y) == (y % 4 = 0 /\ y % 100 # 0) \/ y % 400 = 0

DaysInMonth(y, m) ==
    IF m = 2 THEN (IF IsLeap(y) THEN 29 ELSE 28)
    ELSE IF m \in {4, 6, 9, 11} THEN 30 ELSE 31

Date(y, m, d) == [year |-> y, month |-> m, day |-> d]

NoDate == Date(0, 0, 0)

IsValidDate(y, m, d) == m \in 1..12 /\ d >= 1 /\ d <= DaysInMonth(y, m)

(***************************************************************************)
(* The spreadsheet (the gspread collaborator)                              *)
(***************************************************************************)
E == <<>>                               \* a blank cell
TRUE_TEXT == <<"T", "R", "U", "E">>
FALSE_TEXT == <<"F", "A", "L", "S", "E">>

AN == <<"A", "n">>
BINH == <<"B", "i", "n", "h">>
THAI == <<"T", "h", "a", "i">>
DUY_THAI == <<"D", "u", "y", " ", "T", "h", "a", "i">>
NGUYEN_DUY_THAI == <<"N", "g", "u", "y", "e_circumflex_tilde", "n", " ",
                     "D", "u", "y", " ", "T", "h", "a_acute", "i">>
TEN == <<"T", "e_circumflex", "n">>

\* f"Tháng {month}"
THANG == <<"T", "h", "a_acute", "n", "g", " ">>

GetSheetNameForDate(date) == THANG \o Str(date.month)

\* The spreadsheet the bot is pointed at: one tab per month, row 1 the header
\* of date labels, column 1 the participant names.  There is no tab for
\* month 3.
InitialCells ==
    (THANG \o Str(1)) :>
        << << E,    <<"2", "3", "/", "1", "/", "2", "0", "2", "6">> >>,
           << AN,   E >>,
           << BINH, TRUE_TEXT >> >>
    @@
    (THANG \o Str(2)) :>
        << << TEN,             <<" ", "2", "3", " ">> >>,
           << THAI,            E >>,
           << E,               E >>,
           << NGUYEN_DUY_THAI, E >> >>

\* gspread trims the trailing blank cells of a row or column it returns
RECURSIVE TrimTrailing(_)
TrimTrailing(xs) ==
    IF xs # <<>> /\ xs[Len(xs)] = E THEN TrimTrailing(SubSeq(xs, 1, Len(xs) - 1))
    ELSE xs

\* Worksheet.row_values(r)
RowValues(grid, r) == TrimTrailing(grid[r])

\* Worksheet.col_values(c)
ColValues(grid, c) == TrimTrailing([r \in 1..Len(grid) |-> grid[r][c]])

\* Worksheet.update_cell(row, col, value) on the tab titled t
UpdateCell(sheet, t, row, col, value) ==
    [sheet EXCEPT ![t][row][col] = value]

\* a worksheet handle, and the absent handle (None)
Handle(t) == [title |-> t]
NoWorksheet == [title |-> <<>>]

\* Optional[int]
Some(n) == [some |-> TRUE, val |-> n]
None == [some |-> FALSE, val |-> 0]

\* The gspread calls of one manager call, any one of which may raise
\* (network, quota, authorisation).
ApiCalls == {"worksheet", "col_values", "row_values", "update_cell"}
ApiErrors == ApiCalls \cup {"none"}

(***************************************************************************)
(* SheetsManager                                                           *)
(***************************************************************************)
\* _ensure_correct_worksheet(date): ok, the cached handle afterwards, and the
\* open-tab-by-name calls made (successful or not).
EnsureCorrectWorksheet_AlwaysOpen(auto, ss, ws, sheet, date, err) ==
    LET required == GetSheetNameForDate(date)
    IN  IF ss /\ err # "worksheet" /\ required \in DOMAIN sheet
        THEN [ok |-> TRUE, worksheet |-> Handle(required), opens |-> <<required>>]
        ELSE [ok |-> FALSE, worksheet |-> ws, opens |-> IF ss THEN <<required>> ELSE <<>>]

EnsureCorrectWorksheet_KeepsCached(auto, ss, ws, sheet, date, err) ==
    LET required == GetSheetNameForDate(date)
    IN  IF ~auto \/ ws # NoWorksheet
        THEN [ok |-> TRUE, worksheet |-> ws, opens |-> <<>>]
        ELSE IF ~ss \/ err = "worksheet" \/ required \notin DOMAIN sheet
        THEN [ok |-> FALSE, worksheet |-> ws, opens |-> IF ss THEN <<required>> ELSE <<>>]
        ELSE [ok |-> TRUE, worksheet |-> Handle(required), opens |-> <<required>>]

EnsureCorrectWorksheet(auto, ss, ws, sheet, date, err) ==
    LET required == GetSheetNameForDate(date)
    IN  IF ~auto
        THEN [ok |-> TRUE, worksheet |-> ws, opens |-> <<>>]
        ELSE IF ws # NoWorksheet /\ ws.title = required
        THEN [ok |-> TRUE, worksheet |-> ws, opens |-> <<>>]
        ELSE IF ~ss                       \* self.spreadsheet is None
        THEN [ok |-> FALSE, worksheet |-> ws, opens |-> <<>>]
        ELSE IF err = "worksheet" \/ required \notin DOMAIN sheet
        THEN [ok |-> FALSE, worksheet |-> ws, opens |-> <<required>>]
        ELSE [ok |-> TRUE, worksheet |-> Handle(required), opens |-> <<required>>]

\* the date_formats list of get_column_for_date
DateFormats(date) ==
    LET d == Str(date.day)
        dp == Pad2(date.day)
        m == Str(date.month)
        mp == Pad2(date.month)
        y == Str(date.year)
        sl == <<"/">>
    IN  << d,
           dp,
           d \o sl \o m \o sl \o y,
           dp \o sl \o mp \o sl \o y,
           m \o sl \o d \o sl \o y,
           mp \o sl \o dp \o sl \o y,
           d \o sl \o m,
           dp \o sl \o mp,
           dp \o sl \o mp \o sl \o y,
           mp \o sl \o dp \o sl \o y,
           dp \o sl \o mp >>

\* one header cell of get_column_for_date's loop
HeaderMatches_Untrimmed(cell, date) ==
    /\ cell # <<>>
    /\ \/ InList(cell, DateFormats(date))
       \/ cell = Str(date.day)
       \/ cell = Pad2(date.day)

HeaderMatches(cell, date) ==
    LET v == Strip(cell)
    IN  /\ v # <<>>
        /\ \/ InList(v, DateFormats(date))
           \/ v = Str(date.day)
           \/ v = Pad2(date.day)

\* get_column_for_date(date) on the cached worksheet
GetColumnForDate(ws, sheet, date, err) ==
    IF ws = NoWorksheet \/ err = "row_values" THEN None
    ELSE LET header_row == RowValues(sheet[ws.title], 1)
             hits == {i \in 1..Len(header_row) : HeaderMatches(header_row[i], date)}
         IN  IF hits = {} THEN None ELSE Some(Min(hits))

\* one cell of get_row_for_user's loop
NameMatches_NoWordMatch(cell_value, user_name_normalized) ==
    /\ cell_value # <<>>
    /\ Strip(cell_value) # <<>>
    /\ LET cell_normalized == remove_vietnamese_accents(cell_value)
       IN  \/ cell_normalized = user_name_normalized
           \/ IsSubstring(user_name_normalized, cell_normalized)

NameMatches(cell_value, user_name_normalized) ==
    /\ cell_value # <<>>
    /\ Strip(cell_value) # <<>>
    /\ LET cell_normalized == remove_vietnamese_accents(cell_value)
       IN  \/ cell_normalized = user_name_normalized
           \/ IsSubstring(user_name_normalized, cell_normalized)
           \/ LET user_words == Split(user_name_normalized)
                  cell_words == Split(cell_normalized)
              IN  \A i \in 1..Len(user_words) : InList(user_words[i], cell_words)

\* get_row_for_user(user_name) on the cached worksheet
GetRowForUser(ws, sheet, user_name, err) ==
    IF ws = NoWorksheet \/ err = "col_values" THEN None
    ELSE LET names_column == ColValues(sheet[ws.title], 1)
             user_name_normalized == remove_vietnamese_accents(user_name)
             hits == {i \in 1..Len(names_column) :
                         NameMatches(names_column[i], user_name_normalized)}
         IN  IF hits = {} THEN None ELSE Some(Min(hits))

\* value = "TRUE" if has_order else "FALSE"
MarkerText_Lowercase(has_order) ==
    IF has_order THEN <<"t", "r", "u", "e">> ELSE <<"f", "a", "l", "s", "e">>

MarkerText(has_order) == IF has_order THEN TRUE_TEXT ELSE FALSE_TEXT

\* what one call of mark_order did
Outcome(result, raised, ws, sheet, writes, opens, calls, log) ==
    [result |-> result, raised |-> raised, worksheet |-> ws, cells |-> sheet,
     writes |-> writes, opens |-> opens, calls |-> calls, log |-> log]

\* mark_order: worksheet.update_cell(row, col, value); return True.  An error
\* of the call leaves the try body as an exception and the cell as it was.
WriteStep_Twice(w, sheet, row, col, has_order, opens, calls, err) ==
    LET value == MarkerText(has_order)
        c == Append(calls, "update_cell")
        write == [tab |-> w.title, row |-> row, col |-> col, value |-> value]
    IN  IF err = "update_cell"
        THEN Outcome(FALSE, TRUE, w, sheet, <<>>, opens, c, "raised")
        ELSE Outcome(TRUE, FALSE, w,
                     UpdateCell(sheet, w.title, row, col, value),
                     <<write, write>>, opens, Append(c, "update_cell"), "ok")

WriteStep(w, sheet, row, col, has_order, opens, calls, err) ==
    LET value == MarkerText(has_order)
        c == Append(calls, "update_cell")
    IN  IF err = "update_cell"
        THEN Outcome(FALSE, TRUE, w, sheet, <<>>, opens, c, "raised")
        ELSE Outcome(TRUE, FALSE, w,
                     UpdateCell(sheet, w.title, row, col, value),
                     << [tab |-> w.title, row |-> row, col |-> col, value |-> value] >>,
                     opens, c, "ok")

\* mark_order: the body of its try statement
MarkOrderBody_ColumnFirst(auto, ss, ws, sheet, user_name, has_order, date, err) ==
    LET e == EnsureCorrectWorksheet(auto, ss, ws, sheet, date, err)
        w == e.worksheet
        c0 == IF e.opens = <<>> THEN <<>> ELSE <<"worksheet">>
        col == GetColumnForDate(w, sheet, date, err)
        c1 == IF w = NoWorksheet THEN c0 ELSE Append(c0, "row_values")
        row == GetRowForUser(w, sheet, user_name, err)
        c2 == Append(c1, "col_values")
    IN  IF ~e.ok
        THEN Outcome(FALSE, FALSE, w, sheet, <<>>, e.opens, c0, "worksheet")
        ELSE IF ~col.some
        THEN Outcome(FALSE, FALSE, w, sheet, <<>>, e.opens, c1, "column")
        ELSE IF ~row.some
        THEN Outcome(FALSE, FALSE, w, sheet, <<>>, e.opens, c2, "user")
        ELSE WriteStep(w, sheet, row.val, col.val, has_order, e.opens, c2, err)

MarkOrderBody(auto, ss, ws, sheet, user_name, has_order, date, err) ==
    LET e == EnsureCorrectWorksheet(auto, ss, ws, sheet, date, err)
        w == e.worksheet
        c0 == IF e.opens = <<>> THEN <<>> ELSE <<"worksheet">>
        row == GetRowForUser(w, sheet, user_name, err)
        c1 == IF w = NoWorksheet THEN c0 ELSE Append(c0, "col_values")
        col == GetColumnForDate(w, sheet, date, err)
        c2 == Append(c1, "row_values")
    IN  IF ~e.ok
        THEN Outcome(FALSE, FALSE, w, sheet, <<>>, e.opens, c0, "worksheet")
        ELSE IF ~row.some
        THEN Outcome(FALSE, FALSE, w, sheet, <<>>, e.opens, c1, "user")
        ELSE IF ~col.some
        THEN Outcome(FALSE, FALSE, w, sheet, <<>>, e.opens, c2, "column")
        ELSE WriteStep(w, sheet, row.val, col.val, has_order, e.opens, c2, err)

\* mark_order: except Exception: log, return False
MarkOrderExcept_Reraise(o) == o

MarkOrderExcept(o) ==
    IF o.raised
    THEN [o EXCEPT !.result = FALSE, !.raised = FALSE, !.log = "exception"]
    ELSE o

\* mark_order(user_name, has_order, date)
MarkOrderCall(auto, ss, ws, sheet, user_name, has_order, date, err) ==
    MarkOrderExcept(MarkOrderBody(auto, ss, ws, sheet, user_name, has_order, date, err))

\* connect(): open the spreadsheet, name the tab, open it
ConnectCall(auto, name, sheet, now, err) ==
    IF err = "open_by_key"
    THEN [result |-> FALSE, spreadsheet |-> FALSE, sheet_name |-> name,
          worksheet |-> NoWorksheet, opens |-> <<>>]
    ELSE LET n == IF auto /\ name = <<>> THEN GetSheetNameForDate(now) ELSE name
         IN  IF n = <<>> \/ err = "worksheet" \/ n \notin DOMAIN sheet
             THEN [result |-> FALSE, spreadsheet |-> TRUE, sheet_name |-> n,
                   worksheet |-> NoWorksheet, opens |-> <<n>>]
             ELSE [result |-> TRUE, spreadsheet |-> TRUE, sheet_name |-> n,
                   worksheet |-> Handle(n), opens |-> <<n>>]

\* get_order_status: value and value.upper() == "TRUE" / "FALSE"
StatusOfValue_CaseSensitive(value) ==
    IF value = TRUE_TEXT THEN "True"
    ELSE IF value = FALSE_TEXT THEN "False"
    ELSE "None"

StatusOfValue(value) ==
    IF value # <<>> /\ Upper(value) = TRUE_TEXT THEN "True"
    ELSE IF value # <<>> /\ Upper(value) = FALSE_TEXT THEN "False"
    ELSE "None"

\* get_order_status(user_name, date): "True", "False" or "None"
GetOrderStatusCall(ws, sheet, user_name, date, err) ==
    LET row == GetRowForUser(ws, sheet, user_name, err)
        col == GetColumnForDate(ws, sheet, date, err)
    IN  IF ~row.some THEN "None"
        ELSE IF ~col.some THEN "None"
        ELSE IF err = "cell" THEN "None"      \* except Exception: return None
        ELSE StatusOfValue(sheet[ws.title][row.val][col.val])

\* xs[1:]
Rest(xs) == IF xs = <<>> THEN <<>> ELSE Tail(xs)

\* get_daily_summary: i < len(order_statuses) and
\* order_statuses[i].upper() == "TRUE" (i counted from 1 here)
HasOrder_CaseSensitive(order_statuses, i) ==
    i <= Len(order_statuses) /\ order_statuses[i] = TRUE_TEXT

HasOrder(order_statuses, i) ==
    i <= Len(order_statuses) /\ Upper(order_statuses[i]) = TRUE_TEXT

\* get_daily_summary: the loop over names, from index i
RECURSIVE SummaryFrom(_, _, _)
SummaryFrom(names, order_statuses, i) ==
    IF i > Len(names) THEN <<>>
    ELSE (IF Strip(names[i]) # <<>>
          THEN << [name |-> names[i], has_order |-> HasOrder(order_statuses, i)] >>
          ELSE <<>>) \o SummaryFrom(names, order_statuses, i + 1)

\* get_daily_summary(date): the list of entries
GetDailySummaryCall(ws, sheet, date, err) ==
    LET col == GetColumnForDate(ws, sheet, date, err)
    IN  IF ~col.some THEN <<>>
        ELSE IF err = "col_values" THEN <<>>  \* except Exception: return summary
        ELSE SummaryFrom(Rest(ColValues(sheet[ws.title], 1)),
                         Rest(ColValues(sheet[ws.title], col.val)), 1)

(***************************************************************************)
(* State machine of the manager                                            *)
(***************************************************************************)
NoCall ==
    [op |-> "none", user_name |-> <<>>, has_order |-> FALSE, date |-> NoDate,
     result |-> FALSE, raised |-> FALSE, writes |-> <<>>, opens |-> <<>>,
     calls |-> <<>>, log |-> "none", before |-> NoWorksheet]

NoMessage == [outcome |-> "none"]

NoResolve == [stage |-> "none"]

NoApply == [stage |-> "none"]

\* the display names mark_order is called with
UserNames == {AN, DUY_THAI}

\* the dates mark_order is called with
MarkDates == {Date(2026, m, d) : m \in 1..MaxMonth, d \in {23, 24}}

\* SheetsManager(credentials_file, sheet_id, sheet_name, auto_detect_month):
\* the tab chosen by month (the default), a first tab given by SHEET_NAME,
\* and a fixed tab
Configurations ==
    { [auto_detect_month |-> TRUE,  sheet_name |-> <<>>],
      [auto_detect_month |-> TRUE,  sheet_name |-> THANG \o Str(2)],
      [auto_detect_month |-> FALSE, sheet_name |-> THANG \o Str(2)] }

Init ==
    /\ \E cfg \in Configurations :
        /\ auto_detect_month = cfg.auto_detect_month
        /\ sheet_name = cfg.sheet_name
    /\ spreadsheet = FALSE
    /\ worksheet = NoWorksheet
    /\ cells = InitialCells
    /\ phase = "new"
    /\ last = NoCall
    /\ bot = NoMessage
    /\ rd = NoResolve
    /\ app = NoApply

Connect ==
    /\ phase = "new"
    /\ \E now \in MarkDates, err \in {"none", "open_by_key", "worksheet"} :
        \E c \in {ConnectCall(auto_detect_month, sheet_name, cells, now, err)} :
            /\ spreadsheet' = c.spreadsheet
            /\ sheet_name' = c.sheet_name
            /\ worksheet' = c.worksheet
            /\ phase' = IF c.result THEN "connected" ELSE "failed"
            /\ last' = [NoCall EXCEPT !.op = "connect", !.date = now,
                                      !.result = c.result, !.opens = c.opens]
    /\ UNCHANGED <<auto_detect_month, cells, bot, rd, app>>

\* mark_order called with a display name and a date of the given sets
MarkOrderOf(user_names, dates) ==
    /\ phase = "connected"
    /\ \E user_name \in user_names, has_order \in BOOLEAN, date \in dates,
       err \in ApiErrors :
        \E o \in {MarkOrderCall(auto_detect_month, spreadsheet, worksheet, cells,
                                 user_name, has_order, date, err)} :
            /\ worksheet' = o.worksheet
            /\ cells' = o.cells
            /\ last' = [op |-> "mark_order", user_name |-> user_name,
                        has_order |-> has_order, date |-> date,
                        result |-> o.result, raised |-> o.raised,
                        writes |-> o.writes, opens |-> o.opens,
                        calls |-> o.calls, log |-> o.log, before |-> worksheet]
            /\ UNCHANGED <<auto_detect_month, sheet_name, spreadsheet, phase, bot, rd, app>>

MarkOrder == MarkOrderOf(UserNames, MarkDates)

Next == Connect \/ MarkOrder

Spec == Init /\ [][Next]_vars

\* The bot's manager (auto_detect_month left at its default) marking for
\* participants whatever their display name is, over more than one year.
TEN_PLAIN == <<"T", "e", "n">>

LedgerNames == {DUY_THAI, TEN_PLAIN}

LedgerDates == {Date(2025, 2, 23), Date(2026, 2, 23), Date(2026, 1, 23)}

InitLedger ==
    /\ auto_detect_month = TRUE
    /\ sheet_name \in {<<>>, THANG \o Str(2)}
    /\ spreadsheet = FALSE
    /\ worksheet = NoWorksheet
    /\ cells = InitialCells
    /\ phase = "new"
    /\ last = NoCall
    /\ bot = NoMessage
    /\ rd = NoResolve
    /\ app = NoApply

MarkOrderAnyone == MarkOrderOf(LedgerNames, LedgerDates)

NextLedger == Connect \/ MarkOrderAnyone

SpecLedger == InitLedger /\ [][NextLedger]_vars

\* the gspread calls of a read, any one of which may raise
ReadErrors == {"none", "col_values", "row_values", "cell"}

GetOrderStatus ==
    /\ phase = "connected"
    /\ \E user_name \in UserNames, date \in MarkDates, err \in ReadErrors :
        last' = [op |-> "get_order_status", user_name |-> user_name, date |-> date,
                 err |-> err, tab |-> worksheet.title,
                 value |-> GetOrderStatusCall(worksheet, cells, user_name, date, err)]
    /\ UNCHANGED <<auto_detect_month, sheet_name, spreadsheet, worksheet, cells,
                   phase, bot, rd, app>>

GetDailySummary ==
    /\ phase = "connected"
    /\ \E date \in MarkDates, err \in ReadErrors \ {"cell"} :
        last' = [op |-> "get_daily_summary", user_name |-> <<>>, date |-> date,
                 err |-> err, tab |-> worksheet.title,
                 value |-> GetDailySummaryCall(worksheet, cells, date, err)]
    /\ UNCHANGED <<auto_detect_month, sheet_name, spreadsheet, worksheet, cells,
                   phase, bot, rd, app>>

\* the manager with its read operations
NextRead == Connect \/ MarkOrder \/ GetOrderStatus \/ GetDailySummary

SpecRead == Init /\ [][NextRead]_vars

\* The read operations on a connected manager whose cached tab holds flags
\* typed by hand: any letter case, other words, surrounding blanks.
LOWER_TRUE == <<"t", "r", "u", "e">>
MIXED_FALSE == <<"F", "a", "l", "s", "e">>
YES == <<"y", "e", "s">>
PADDED_TRUE == <<" ", "T", "R", "U", "E">>

StatusSheets ==
    { (THANG \o Str(1)) :>
        << << E,               <<"2", "3">> >>,
           << n1,              v1 >>,
           << blank,           TRUE_TEXT >>,
           << NGUYEN_DUY_THAI, v2 >> >> :
        n1 \in {AN, BINH}, blank \in {E, <<" ">>},
        v1 \in {E, TRUE_TEXT, LOWER_TRUE, FALSE_TEXT, MIXED_FALSE, PADDED_TRUE},
        v2 \in {E, LOWER_TRUE, YES} }

InitStatus ==
    /\ auto_detect_month = TRUE
    /\ sheet_name = THANG \o Str(1)
    /\ spreadsheet = TRUE
    /\ worksheet = Handle(THANG \o Str(1))
    /\ cells \in StatusSheets
    /\ phase = "connected"
    /\ last = NoCall
    /\ bot = NoMessage
    /\ rd = NoResolve
    /\ app = NoApply

NextStatus == GetOrderStatus \/ GetDailySummary

SpecStatus == InitStatus /\ [][NextStatus]_vars

(***************************************************************************)
(* VietnameseOrderParser.parse_date_from_message                           *)
(***************************************************************************)
\* datetime(year, month, day): ValueError for a day the month does not have
DateTime(y, m, d) ==
    IF IsValidDate(y, m, d)
    THEN [raised |-> FALSE, value |-> Date(y, m, d)]
    ELSE [raised |-> TRUE, value |-> NoDate]

Returned(date) == [raised |-> FALSE, value |-> date]

\* date.toordinal(): the days from 0001-01-01, which date comparison and
\* subtraction go by
DaysBeforeYear(y) ==
    365 * (y - 1) + ((y - 1) \div 4) - ((y - 1) \div 100) + ((y - 1) \div 400)

RECURSIVE DaysBeforeMonth(_, _)
DaysBeforeMonth(y, m) ==
    IF m = 1 THEN 0 ELSE DaysBeforeMonth(y, m - 1) + DaysInMonth(y, m - 1)

ToOrdinal(date) ==
    DaysBeforeYear(date.year) + DaysBeforeMonth(date.year, date.month) + date.day

\* current_date - timedelta(days=1)
MinusOneDay(date) ==
    IF date.day > 1 THEN Date(date.year, date.month, date.day - 1)
    ELSE IF date.month > 1
         THEN Date(date.year, date.month - 1, DaysInMonth(date.year, date.month - 1))
         ELSE Date(date.year - 1, 12, 31)

\* the day after a date (the wall clock moving on)
PlusOneDay(date) ==
    IF date.day < DaysInMonth(date.year, date.month)
    THEN Date(date.year, date.month, date.day + 1)
    ELSE IF date.month < 12 THEN Date(date.year, date.month + 1, 1)
         ELSE Date(date.year + 1, 1, 1)

RECURSIVE PlusDays(_, _)
PlusDays(date, k) == IF k = 0 THEN date ELSE PlusDays(PlusOneDay(date), k - 1)

\* the branch taken for intent_result.day_number
IntentDayToDate_SameMonth(current_date, target_day) ==
    DateTime(current_date.year, current_date.month, target_day)

IntentDayToDate_RollsSameDay(current_date, target_day) ==
    IF target_day >= current_date.day
    THEN IF current_date.month = 1
         THEN DateTime(current_date.year - 1, 12, target_day)
         ELSE DateTime(current_date.year, current_date.month - 1, target_day)
    ELSE DateTime(current_date.year, current_date.month, target_day)

IntentDayToDate(current_date, target_day) ==
    IF target_day > current_date.day
    THEN IF current_date.month = 1
         THEN DateTime(current_date.year - 1, 12, target_day)
         ELSE DateTime(current_date.year, current_date.month - 1, target_day)
    ELSE DateTime(current_date.year, current_date.month, target_day)

\* the branch taken for a day number found in the text
TextDayToDate(current_date, day_num) ==
    IF day_num > current_date.day
    THEN IF current_date.month = 1
         THEN DateTime(current_date.year - 1, 12, day_num)
         ELSE DateTime(current_date.year, current_date.month - 1, day_num)
    ELSE DateTime(current_date.year, current_date.month, day_num)

\* A message text, as far as parse_date_from_message reads it: for each of the
\* three day_patterns the number captured by its first match (None: no
\* match), and whether the lowered text contains a yesterday keyword.
Message(ngay, day, tui, yesterday) ==
    [day_matches |-> <<ngay, day, tui>>, yesterday |-> yesterday]

PlainMessage == Message(None, None, None, FALSE)

\* the yesterday_keywords branch and the default
RelativeDate_IgnoresYesterday(current_date, message) == Returned(current_date)

RelativeDate(current_date, message) ==
    IF message.yesterday THEN Returned(MinusOneDay(current_date))
    ELSE Returned(current_date)

\* parse_date_from_message(message, intent_result), with current_date the
\* value of datetime.now() it reads
ParseDateFromMessage(current_date, message, day_number) ==
    IF day_number.some /\ day_number.val # 0
    THEN IntentDayToDate(current_date, day_number.val)
    ELSE LET hits == {i \in 1..3 : /\ message.day_matches[i].some
                                   /\ message.day_matches[i].val >= 1
                                   /\ message.day_matches[i].val <= 31}
         IN  IF hits # {}
             THEN TextDayToDate(current_date, message.day_matches[Min(hits)].val)
             ELSE RelativeDate(current_date, message)

(***************************************************************************)
(* handle_message                                                          *)
(***************************************************************************)
\* the date description for the reply
DateDesc(target_date, message_date) ==
    IF ToOrdinal(target_date) < ToOrdinal(message_date)
    THEN IF ToOrdinal(message_date) - ToOrdinal(target_date) = 1
         THEN [kind |-> "hom qua", day |-> 0, month |-> 0]
         ELSE [kind |-> "ngay", day |-> target_date.day, month |-> target_date.month]
    ELSE [kind |-> "hom nay", day |-> 0, month |-> 0]

\* what handle_message did with one message
Handled(outcome, user_name, message_date, now, message, intent, day_number, target, date_desc) ==
    [outcome |-> outcome, user_name |-> user_name, message_date |-> message_date,
     now |-> now, message |-> message, intent |-> intent,
     day_number |-> day_number, target |-> target, date_desc |-> date_desc]

NoDesc == [kind |-> "none", day |-> 0, month |-> 0]

\* the dates (Vietnam time) of the messages handled
MessageDates ==
    {Date(2026, 1, 23), Date(2026, 2, 28), Date(2026, 3, 1)}

\* the classifier's day_number and the text of the messages handled
MessageInputs ==
    { [day_number |-> None,     message |-> PlainMessage],
      [day_number |-> None,     message |-> Message(None, None, None, TRUE)],
      [day_number |-> None,     message |-> Message(Some(23), None, None, FALSE)],
      [day_number |-> Some(0),  message |-> PlainMessage],
      [day_number |-> Some(23), message |-> PlainMessage],
      [day_number |-> Some(30), message |-> PlainMessage] }

\* main(): SheetsManager(credentials_file, sheet_id, sheet_name), so
\* auto_detect_month keeps its default
InitBot ==
    /\ \E cfg \in {c \in Configurations : c.auto_detect_month} :
        /\ auto_detect_month = cfg.auto_detect_month
        /\ sheet_name = cfg.sheet_name
    /\ spreadsheet = FALSE
    /\ worksheet = NoWorksheet
    /\ cells = InitialCells
    /\ phase = "new"
    /\ last = NoCall
    /\ bot = NoMessage
    /\ rd = NoResolve
    /\ app = NoApply

\* handle_message(update, context).  parse names what parse_message_full
\* gave: "no_text" (no text message), "none" (None), "no_intent" ((None,
\* data)), "order", "cancel".  A message that is ignored is not read further.
HandleMessage ==
    /\ phase = "connected"
    /\ \/ \E parse \in {"no_text", "none", "no_intent"} :
            /\ bot' = Handled("ignored", <<>>, NoDate, NoDate, PlainMessage, parse,
                              None, NoDate, NoDesc)
            /\ last' = NoCall
            /\ UNCHANGED <<worksheet, cells>>
       \/ \E message_date \in MessageDates, delay \in 0..MaxDelay,
             input \in MessageInputs, parse \in {"order", "cancel"},
             err \in {"none", "update_cell"} :
            LET now == PlusDays(message_date, delay)
                user_name == AN
            IN  \E t \in {ParseDateFromMessage(now, input.message,
                                               input.day_number)} :
                    \/ /\ t.raised       \* the ValueError leaves the handler
                       /\ bot' = Handled("crashed", user_name, message_date, now,
                                         input.message, parse, input.day_number,
                                         NoDate, NoDesc)
                       /\ last' = NoCall
                       /\ UNCHANGED <<worksheet, cells>>
                    \/ /\ ~t.raised
                       /\ \E o \in {MarkOrderCall(auto_detect_month, spreadsheet,
                                                  worksheet, cells, user_name,
                                                  parse = "order", t.value, err)} :
                            /\ worksheet' = o.worksheet
                            /\ cells' = o.cells
                            /\ last' = [op |-> "mark_order", user_name |-> user_name,
                                        has_order |-> (parse = "order"),
                                        date |-> t.value,
                                        result |-> o.result, raised |-> o.raised,
                                        writes |-> o.writes, opens |-> o.opens,
                                        calls |-> o.calls, log |-> o.log,
                                        before |-> worksheet]
                            /\ bot' = Handled(IF o.raised THEN "crashed"
                                              ELSE IF o.result THEN "confirmed"
                                              ELSE "not_found",
                                              user_name, message_date, now,
                                              input.message, parse,
                                              input.day_number, t.value,
                                              DateDesc(t.value, message_date))
    /\ UNCHANGED <<auto_detect_month, sheet_name, spreadsheet, phase, rd, app>>

NextBot == Connect \/ HandleMessage

SpecBot == InitBot /\ [][NextBot]_vars

(***************************************************************************)
(* The date resolver on drawn inputs                                       *)
(***************************************************************************)
\* the reference dates: every day of the years 2024..MaxYear
ReferenceDates ==
    {x \in [year : 2024..MaxYear, month : 1..12, day : 1..31] :
        IsValidDate(x.year, x.month, x.day)}

\* the texts drawn when the classifier names no day
Messages ==
    {Message(ngay, day, None, yesterday) :
        ngay \in {None, Some(0), Some(20), Some(31), Some(45)},
        day \in {None, Some(10)},
        yesterday \in BOOLEAN}

\* (day_number, message): every day number with a plain text and with a text
\* that names another day, and every drawn text with day_number None or 0
ResolverInputs ==
    {[day_number |-> Some(n), message |-> m] :
        n \in (-1)..MaxDayNumber,
        m \in {PlainMessage, Message(Some(20), None, None, TRUE)}}
    \cup
    {[day_number |-> n, message |-> m] : n \in {None, Some(0)}, m \in Messages}

InitDate ==
    /\ auto_detect_month = TRUE
    /\ sheet_name = <<>>
    /\ spreadsheet = FALSE
    /\ worksheet = NoWorksheet
    /\ cells = InitialCells
    /\ phase = "new"
    /\ last = NoCall
    /\ bot = NoMessage
    /\ app = NoApply
    /\ \E current_date \in ReferenceDates, input \in ResolverInputs :
        rd = [stage |-> "drawn", current_date |-> current_date,
              day_number |-> input.day_number, message |-> input.message,
              result |-> Returned(NoDate)]

ResolveDate ==
    /\ rd.stage = "drawn"
    /\ rd' = [rd EXCEPT !.stage = "resolved",
                        !.result = ParseDateFromMessage(rd.current_date, rd.message,
                                                        rd.day_number)]
    /\ UNCHANGED <<auto_detect_month, sheet_name, spreadsheet, worksheet, cells,
                   phase, last, bot, app>>

NextDate == ResolveDate

SpecDate == InitDate /\ [][NextDate]_vars

(***************************************************************************)
(* get_column_for_date on drawn header rows                                *)
(***************************************************************************)
\* the dates a column is looked up for
ColumnDates == {Date(2026, 1, 23), Date(2026, 3, 2)}

\* the ways a date is typed into a header cell
LabelsOf(date) ==
    LET d == Str(date.day)
        dp == Pad2(date.day)
        m == Str(date.month)
        mp == Pad2(date.month)
        y == Str(date.year)
        sl == <<"/">>
    IN  { d, dp, <<" ">> \o d \o <<" ">>,
          d \o sl \o m \o sl \o y, dp \o sl \o mp \o sl \o y,
          <<"NBSP">> \o dp \o sl \o mp \o sl \o y \o <<"TAB">>,
          m \o sl \o d \o sl \o y, mp \o sl \o dp \o sl \o y,
          d \o sl \o m, dp \o sl \o mp,
          m \o sl \o d, mp \o sl \o dp,
          d \o sl \o mp \o sl \o y,
          d \o <<"-">> \o m \o <<"-">> \o y }

\* the texts of a header cell: blank, whitespace, a title, and the labels of
\* the dates looked up and of the date with their day and month exchanged
HeaderCells ==
    {E, <<" ">>, TEN} \cup
    UNION {LabelsOf(date) : date \in ColumnDates \cup {Date(2026, 2, 3)}}

\* the header rows: up to MaxHeaderLen cells
Headers == UNION {[1..n -> HeaderCells] : n \in 0..MaxHeaderLen}

InitColumn ==
    /\ auto_detect_month = TRUE
    /\ sheet_name = <<>>
    /\ spreadsheet = FALSE
    /\ worksheet = NoWorksheet
    /\ cells = InitialCells
    /\ phase = "new"
    /\ last = NoCall
    /\ bot = NoMessage
    /\ rd = NoResolve
    /\ \E date \in ColumnDates, header_row \in Headers, err \in {"none", "row_values"} :
        app = [stage |-> "drawn", op |-> "get_column_for_date", date |-> date,
               header_row |-> header_row, err |-> err, result |-> None]

\* get_column_for_date(date) on a worksheet whose row 1 is the drawn header
ApplyGetColumnForDate ==
    /\ app.stage = "drawn"
    /\ app.op = "get_column_for_date"
    /\ LET title == GetSheetNameForDate(app.date)
           grid == <<app.header_row>>
       IN  app' = [app EXCEPT
                      !.stage = "applied",
                      !.result = GetColumnForDate(Handle(title), title :> grid,
                                                  app.date, app.err)]
    /\ UNCHANGED <<auto_detect_month, sheet_name, spreadsheet, worksheet, cells,
                   phase, last, bot, rd>>

NextColumn == ApplyGetColumnForDate

SpecColumn == InitColumn /\ [][NextColumn]_vars

(***************************************************************************)
(* get_row_for_user on drawn name columns                                  *)
(***************************************************************************)
THAI_DUY == <<"T", "h", "a", "i", " ", "D", "u", "y">>
THAI_ACCENTED == <<"T", "H", "A_acute", "I">>

\* the texts of a first-column cell: blank, whitespace, a title, names
NameCells == {E, <<" ">>, TEN, THAI, DUY_THAI, THAI_DUY, NGUYEN_DUY_THAI}

\* the display names looked up
DisplayNames ==
    {THAI, THAI_ACCENTED, DUY_THAI, AN,
     <<" ", "d", "u", "y", "TAB", "t", "h", "a_acute", "i">>}

\* the first columns: up to MaxNames cells
NameColumns == UNION {[1..n -> NameCells] : n \in 0..MaxNames}

InitRow ==
    /\ auto_detect_month = TRUE
    /\ sheet_name = <<>>
    /\ spreadsheet = FALSE
    /\ worksheet = NoWorksheet
    /\ cells = InitialCells
    /\ phase = "new"
    /\ last = NoCall
    /\ bot = NoMessage
    /\ rd = NoResolve
    /\ \E user_name \in DisplayNames, names_column \in NameColumns,
          err \in {"none", "col_values"} :
        app = [stage |-> "drawn", op |-> "get_row_for_user", user_name |-> user_name,
               names_column |-> names_column, err |-> err, result |-> None]

\* get_row_for_user(user_name) on a worksheet whose column 1 is the drawn one
ApplyGetRowForUser ==
    /\ app.stage = "drawn"
    /\ app.op = "get_row_for_user"
    /\ LET title == THANG \o Str(1)
           grid == [r \in 1..Len(app.names_column) |-> <<app.names_column[r]>>]
       IN  app' = [app EXCEPT
                      !.stage = "applied",
                      !.result = GetRowForUser(Handle(title), title :> grid,
                                               app.user_name, app.err)]
    /\ UNCHANGED <<auto_detect_month, sheet_name, spreadsheet, worksheet, cells,
                   phase, last, bot, rd>>

NextRow == ApplyGetRowForUser

SpecRow == InitRow /\ [][NextRow]_vars

(***************************************************************************)
(* remove_vietnamese_accents on drawn texts                                *)
(***************************************************************************)
\* the characters of the drawn texts: letters of both cases, whitespace,
\* accented letters, a combining mark on its own, the letters that do not
\* decompose
TextChars ==
    {"a", "T", " ", "TAB", "A_acute", "e_circumflex_tilde", "ACUTE",
     "D_stroke", "d_stroke", "ETH"}

\* the texts: up to MaxTextLen characters
Texts == UNION {[1..n -> TextChars] : n \in 0..MaxTextLen}

InitNormalize ==
    /\ auto_detect_month = TRUE
    /\ sheet_name = <<>>
    /\ spreadsheet = FALSE
    /\ worksheet = NoWorksheet
    /\ cells = InitialCells
    /\ phase = "new"
    /\ last = NoCall
    /\ bot = NoMessage
    /\ rd = NoResolve
    /\ \E text \in Texts :
        app = [stage |-> "drawn", op |-> "remove_vietnamese_accents", text |-> text,
               once |-> <<>>, twice |-> <<>>]

\* remove_vietnamese_accents(text), and the function applied to its result
ApplyRemoveVietnameseAccents ==
    /\ app.stage = "drawn"
    /\ app.op = "remove_vietnamese_accents"
    /\ \E once \in {remove_vietnamese_accents(app.text)} :
        app' = [app EXCEPT !.stage = "applied", !.once = once,
                           !.twice = remove_vietnamese_accents(once)]
    /\ UNCHANGED <<auto_detect_month, sheet_name, spreadsheet, worksheet, cells,
                   phase, last, bot, rd>>

NextNormalize == ApplyRemoveVietnameseAccents

SpecNormalize == InitNormalize /\ [][NextNormalize]_vars

(***************************************************************************)
(* Properties                                                              *)
(***************************************************************************)
\* tab_name_for(date): "Tháng " followed by the unpadded month number
TabNameFor(date) ==
    THANG \o (IF date.month < 10 THEN <<Digits[date.month + 1]>>
              ELSE <<"1", Digits[date.month - 9]>>)

\* the cells (tab, row, column) whose text differs between two spreadsheets
ChangedCells(a, b) ==
    {x \in UNION {{<<t, r, c>> : r \in 1..Len(a[t]), c \in 1..Len(a[t][1])} :
                    t \in DOMAIN a} : a[x[1]][x[2]][x[3]] # b[x[1]][x[2]][x[3]]}

\* C1: a mark call that returns success performed exactly one cell write;
\* one that returns failure performed none and left every cell as it was.
C1_OneWriteIffSuccess ==
    [][ last'.op = "mark_order" =>
            /\ last'.result =>
                  /\ Len(last'.writes) = 1
                  /\ ChangedCells(cells, cells') \subseteq
                        {<<last'.writes[1].tab, last'.writes[1].row, last'.writes[1].col>>}
            /\ ~last'.result => (last'.writes = <<>> /\ cells' = cells) ]_vars

C1_Witness ==
    /\ last.op = "mark_order" /\ last.result
    /\ last.user_name = AN /\ last.date = Date(2026, 1, 23)
    /\ cells[THANG \o Str(1)][2][2] = TRUE_TEXT

\* C2: a successful mark writes the literal "TRUE" (has_order) or "FALSE" into
\* the cell (row of the user, column of the date) of the active tab and
\* changes no other cell of any tab.
C2_WritesMarkerInResolvedCell ==
    [][ (last'.op = "mark_order" /\ last'.result) =>
            LET t == worksheet'.title
                row == GetRowForUser(worksheet', cells, last'.user_name, "none")
                col == GetColumnForDate(worksheet', cells, last'.date, "none")
            IN  /\ row.some /\ col.some
                /\ cells'[t][row.val][col.val] =
                      (IF last'.has_order THEN <<"T", "R", "U", "E">>
                       ELSE <<"F", "A", "L", "S", "E">>)
                /\ ChangedCells(cells, cells') \subseteq {<<t, row.val, col.val>>} ]_vars

C2_Witness ==
    /\ last.op = "mark_order" /\ last.result /\ ~last.has_order
    /\ last.user_name = DUY_THAI
    /\ cells[THANG \o Str(2)][4][2] = FALSE_TEXT

\* C3 as stated: for every configuration a successful mark writes into the
\* tab of the date's month.
C3_Original ==
    (last.op = "mark_order" /\ last.result) =>
        last.writes[1].tab = TabNameFor(last.date)

\* C3 amended: with auto_detect_month enabled a successful mark writes into
\* the tab of the date's month, whatever tab was cached or configured.
C3_WritesIntoMonthTab ==
    (auto_detect_month /\ last.op = "mark_order" /\ last.result) =>
        /\ last.writes[1].tab = TabNameFor(last.date)
        /\ worksheet.title = TabNameFor(last.date)

C3_Witness ==
    /\ auto_detect_month /\ last.op = "mark_order" /\ last.result
    /\ last.before # NoWorksheet
    /\ last.before.title # TabNameFor(last.date)

\* C4 as stated: two consecutive marks in the same month make no open call
\* between them, and a mark for a month other than the cached tab's opens the
\* new month's tab and replaces the cached handle with it.
C4_Original ==
    [][ (last.op = "mark_order" /\ last'.op = "mark_order") =>
            /\ last.date.month = last'.date.month => last'.opens = <<>>
            /\ (worksheet # NoWorksheet /\ worksheet.title # TabNameFor(last'.date)) =>
                  /\ last'.opens = <<TabNameFor(last'.date)>>
                  /\ worksheet' = Handle(TabNameFor(last'.date)) ]_vars

\* C4 amended: with auto_detect_month enabled, a mark whose tab name equals
\* the cached handle's title makes no open call and keeps the handle; any
\* other mark makes exactly one open call, for the tab of its date, and
\* replaces the handle when the open succeeds, keeping it when the open fails
\* (as it does whenever that tab does not exist).
C4_CacheReuse ==
    [][ (auto_detect_month /\ phase = "connected" /\ last'.op = "mark_order") =>
            LET required == TabNameFor(last'.date)
            IN  IF worksheet.title = required
                THEN last'.opens = <<>> /\ worksheet' = worksheet
                ELSE /\ last'.opens = <<required>>
                     /\ \/ worksheet' = Handle(required) /\ required \in DOMAIN cells
                        \/ /\ worksheet' = worksheet
                           /\ ~last'.result
                           /\ last'.log = "worksheet"
                     /\ required \notin DOMAIN cells => worksheet' = worksheet ]_vars

C4_Witness ==
    /\ auto_detect_month /\ last.op = "mark_order"
    /\ last.before # NoWorksheet
    /\ last.opens = <<TabNameFor(last.date)>>
    /\ worksheet = Handle(TabNameFor(last.date))
    /\ worksheet # last.before

\* C5 as stated: the value returned by a failed mark tells the failing steps
\* apart - two calls that fail at different steps return different values.
C5_Original ==
    [][ (/\ last.op = "mark_order" /\ last'.op = "mark_order"
         /\ ~last.result /\ ~last'.result
         /\ last.log # last'.log) => last.result # last'.result ]_vars

ApiOrder == <<"worksheet", "col_values", "row_values", "update_cell">>

\* the position in ApiOrder of the last call made (0: none)
LastCall(calls) ==
    IF calls = <<>> THEN 0
    ELSE CHOOSE i \in 1..4 : ApiOrder[i] = calls[Len(calls)]

\* C5 amended: a failed mark returns the one value False whichever step
\* failed; the steps run in the order tab selection, user row, date column,
\* cell write and the call ends at the first that fails, which is told apart
\* only by the logged message.
C5_FailureIsFalseAtFirstFailingStep ==
    last.op = "mark_order" =>
        /\ last.result = (last.log = "ok")
        /\ last.log \in {"ok", "worksheet", "user", "column", "exception"}
        /\ \A i, j \in 1..Len(last.calls) :
              i < j => \E a, b \in 1..4 : /\ a < b
                                          /\ ApiOrder[a] = last.calls[i]
                                          /\ ApiOrder[b] = last.calls[j]
        /\ last.log = "worksheet" => LastCall(last.calls) <= 1
        /\ last.log = "user" => LastCall(last.calls) = 2
        /\ last.log = "column" =>
              LastCall(last.calls) = 3 /\ InList("col_values", last.calls)
        /\ last.log \in {"exception", "ok"} =>
              /\ LastCall(last.calls) = 4
              /\ InList("col_values", last.calls)
              /\ InList("row_values", last.calls)

C5_Witness ==
    /\ last.op = "mark_order" /\ ~last.result
    /\ last.log = "column"
    /\ last.calls = <<"col_values", "row_values">>

\* C6: mark never raises: a missing tab, an unmatched name, an unmatched date
\* column and an error of a spreadsheet call all end in the return value
\* False.
C6_NeverRaises ==
    last.op = "mark_order" =>
        /\ ~last.raised
        /\ last.log # "ok" => ~last.result

C6_Witness ==
    /\ last.op = "mark_order"
    /\ last.log = "exception"
    /\ ~last.result /\ ~last.raised

\* the explicit day of a resolver input: the classifier's day number, else
\* the first day number in 1..31 the text patterns capture
ExplicitDay(day_number, message) ==
    IF day_number.some /\ day_number.val # 0 THEN day_number
    ELSE IF \E i \in 1..3 : message.day_matches[i].some /\ message.day_matches[i].val \in 1..31
    THEN message.day_matches[CHOOSE i \in 1..3 :
            /\ message.day_matches[i].some /\ message.day_matches[i].val \in 1..31
            /\ \A j \in 1..(i - 1) :
                  ~(message.day_matches[j].some /\ message.day_matches[j].val \in 1..31)]
    ELSE None

\* the month and year an explicit day d is placed in, given the reference date
TargetMonth(ref, d) ==
    IF d > ref.day THEN (IF ref.month = 1 THEN 12 ELSE ref.month - 1) ELSE ref.month

TargetYear(ref, d) ==
    IF d > ref.day /\ ref.month = 1 THEN ref.year - 1 ELSE ref.year

\* C7: for an explicit day d in 1..31 whose target date exists, the resolver
\* returns day d of the month before the reference month (December of the
\* year before, from January) when d is greater than the reference day, and
\* day d of the reference month otherwise.
C7_ExplicitDayRollover ==
    rd.stage = "resolved" =>
        LET e == ExplicitDay(rd.day_number, rd.message)
            ref == rd.current_date
        IN  (/\ e.some /\ e.val \in 1..31
             /\ IsValidDate(TargetYear(ref, e.val), TargetMonth(ref, e.val), e.val)) =>
                /\ ~rd.result.raised
                /\ rd.result.value.day = e.val
                /\ rd.result.value.month = TargetMonth(ref, e.val)
                /\ rd.result.value.year = TargetYear(ref, e.val)

C7_Witness ==
    /\ rd.stage = "resolved"
    /\ rd.current_date = Date(2026, 1, 15)
    /\ rd.day_number = Some(20)
    /\ rd.result = Returned(Date(2025, 12, 20))

\* C8: the date resolved for a message is the one its own timestamp gives,
\* whatever the wall clock reads when the message is handled.
C8_Original ==
    bot.outcome \in {"confirmed", "not_found"} =>
        LET r == ParseDateFromMessage(bot.message_date, bot.message, bot.day_number)
        IN  ~r.raised /\ bot.target = r.value

\* C9: an explicit day that the target month does not have ends in a
\* resolution failure handed to the caller, not in a crash of the handler and
\* not in another date.
C9_Original ==
    (/\ bot.outcome \notin {"none", "ignored"}
     /\ LET e == ExplicitDay(bot.day_number, bot.message)
        IN  /\ e.some
            /\ ~IsValidDate(TargetYear(bot.now, e.val), TargetMonth(bot.now, e.val),
                            e.val)) =>
        (bot.outcome # "crashed" /\ bot.target = NoDate)

\* C10: with no explicit day (day_number None or 0, no day number in the
\* text) the resolver returns the day before the reference date for a
\* yesterday hint, across month and year ends, and the reference date itself
\* otherwise.
C10_RelativeDate ==
    (/\ rd.stage = "resolved"
     /\ ~rd.day_number.some \/ rd.day_number.val = 0
     /\ \A i \in 1..3 : ~rd.message.day_matches[i].some) =>
        /\ ~rd.result.raised
        /\ IsValidDate(rd.result.value.year, rd.result.value.month,
                       rd.result.value.day)
        /\ rd.message.yesterday =>
              ToOrdinal(rd.result.value) = ToOrdinal(rd.current_date) - 1
        /\ ~rd.message.yesterday => rd.result.value = rd.current_date

C10_Witness ==
    /\ rd.stage = "resolved"
    /\ rd.day_number = Some(0)
    /\ rd.message = Message(None, None, None, TRUE)
    /\ rd.current_date = Date(2026, 1, 1)
    /\ rd.result = Returned(Date(2025, 12, 31))

\* the digits of a number, unpadded and padded to two places
Unpadded(n) ==
    IF n < 10 THEN <<Digits[n + 1]>>
    ELSE IF n < 100 THEN <<Digits[(n \div 10) + 1], Digits[(n % 10) + 1]>>
    ELSE <<Digits[(n \div 1000) + 1], Digits[((n \div 100) % 10) + 1],
           Digits[((n \div 10) % 10) + 1], Digits[(n % 10) + 1]>>

TwoPlaces(n) == <<Digits[(n \div 10) + 1], Digits[(n % 10) + 1]>>

Slashed(parts) ==
    IF Len(parts) = 2 THEN parts[1] \o <<"/">> \o parts[2]
    ELSE parts[1] \o <<"/">> \o parts[2] \o <<"/">> \o parts[3]

\* the spellings with the year: day/month/year and month/day/year, both
\* parts unpadded or both padded; and the bare day number
SpellingsWithYear(date) ==
    LET d == Unpadded(date.day)
        dd == TwoPlaces(date.day)
        m == Unpadded(date.month)
        mm == TwoPlaces(date.month)
        y == Unpadded(date.year)
    IN  { d, dd, Slashed(<<d, m, y>>), Slashed(<<dd, mm, y>>),
          Slashed(<<m, d, y>>), Slashed(<<mm, dd, y>>) }

DayMonthSpellings(date) ==
    { Slashed(<<Unpadded(date.day), Unpadded(date.month)>>),
      Slashed(<<TwoPlaces(date.day), TwoPlaces(date.month)>>) }

MonthDaySpellings(date) ==
    { Slashed(<<Unpadded(date.month), Unpadded(date.day)>>),
      Slashed(<<TwoPlaces(date.month), TwoPlaces(date.day)>>) }

\* the 1-based index of the leftmost cell whose trimmed text is in spellings
LeftmostSpelling(header_row, spellings) ==
    IF \E i \in 1..Len(header_row) : Strip(header_row[i]) \in spellings
    THEN Some(CHOOSE i \in 1..Len(header_row) :
                /\ Strip(header_row[i]) \in spellings
                /\ \A j \in 1..(i - 1) : Strip(header_row[j]) \notin spellings)
    ELSE None

\* C11 as stated: find_date_column returns the leftmost header cell whose
\* trimmed text is the bare day number or day/month/year or month/day/year,
\* padded or unpadded, with the year or without it, and none if there is no
\* such cell.
C11_Original ==
    (app.stage = "applied" /\ app.op = "get_column_for_date" /\ app.err = "none") =>
        app.result = LeftmostSpelling(app.header_row,
                        SpellingsWithYear(app.date) \cup DayMonthSpellings(app.date)
                            \cup MonthDaySpellings(app.date))

\* C11 amended: the accepted spellings are the bare day number, day/month/year
\* and month/day/year with the year, and day/month without the year (each
\* with both parts unpadded or both padded); month/day without the year is
\* not accepted.  The leftmost header cell whose trimmed text is accepted is
\* returned by its 1-based index, blank cells counted; none is returned when
\* there is no such cell or the header cannot be read.
C11_FindDateColumn ==
    (app.stage = "applied" /\ app.op = "get_column_for_date") =>
        app.result =
            IF app.err = "none"
            THEN LeftmostSpelling(app.header_row,
                    SpellingsWithYear(app.date) \cup DayMonthSpellings(app.date))
            ELSE None

C11_Witness ==
    /\ app.stage = "applied" /\ app.op = "get_column_for_date"
    /\ app.date = Date(2026, 1, 23)
    /\ app.header_row = << E, <<" ", "2", "3", " ">> >>
    /\ app.result = Some(2)

\* the three strategies, on normalized names
ExactlyEqual(stored, query) == stored = query

ContainsQuery(stored, query) ==
    \E i \in 1..(Len(stored) + 1) : \E j \in (i - 1)..Len(stored) :
        SubSeq(stored, i, j) = query

\* the whitespace-delimited tokens of a text
Tokens(text) ==
    {SubSeq(text, x[1], x[2]) :
        x \in {y \in (1..Len(text)) \X (1..Len(text)) :
                  /\ y[1] <= y[2]
                  /\ \A k \in y[1]..y[2] : text[k] \notin Whitespace
                  /\ (y[1] = 1 \/ text[y[1] - 1] \in Whitespace)
                  /\ (y[2] = Len(text) \/ text[y[2] + 1] \in Whitespace)}}

TokensAmong(stored, query) == Tokens(query) \subseteq Tokens(stored)

IsBlank(cell) == \A i \in 1..Len(cell) : cell[i] \in Whitespace

\* the rows (1-based) of a first column that a strategy selects for a query
RowsBy(strategy(_, _), names_column, user_name) ==
    {r \in 1..Len(names_column) :
        /\ ~IsBlank(names_column[r])
        /\ strategy(remove_vietnamese_accents(names_column[r]),
                    remove_vietnamese_accents(user_name))}

\* C12: when some row's normalized name equals the normalized query, the row
\* returned is an exactly equal one, whatever rows above it match by
\* substring or by tokens; and when none is equal but some row contains the
\* query, the row returned contains it.
C12_Original ==
    (app.stage = "applied" /\ app.op = "get_row_for_user" /\ app.err = "none") =>
        LET exact == RowsBy(ExactlyEqual, app.names_column, app.user_name)
            sub == RowsBy(ContainsQuery, app.names_column, app.user_name)
        IN  /\ exact # {} => (app.result.some /\ app.result.val \in exact)
            /\ (exact = {} /\ sub # {}) => (app.result.some /\ app.result.val \in sub)

\* C13: find_user_row returns the smallest row whose first-column cell is not
\* blank and whose normalized name equals the normalized query, contains it,
\* or has all its tokens; and none exactly when there is no such row.
C13_FirstRowOfAnyStrategy ==
    (app.stage = "applied" /\ app.op = "get_row_for_user" /\ app.err = "none") =>
        LET rows == RowsBy(ExactlyEqual, app.names_column, app.user_name) \cup
                    RowsBy(ContainsQuery, app.names_column, app.user_name) \cup
                    RowsBy(TokensAmong, app.names_column, app.user_name)
        IN  /\ rows = {} <=> ~app.result.some
            /\ rows # {} => /\ app.result.val \in rows
                            /\ \A r \in rows : app.result.val <= r

C13_Witness ==
    /\ app.stage = "applied" /\ app.op = "get_row_for_user"
    /\ app.names_column = <<THAI, NGUYEN_DUY_THAI>>
    /\ app.user_name = DUY_THAI
    /\ app.result = Some(2)

\* two texts equal but for the case of their letters
SameIgnoringCase(a, b) ==
    /\ Len(a) = Len(b)
    /\ \A i \in 1..Len(a) : LowerChar(a[i]) = LowerChar(b[i])

\* C14: get_order_status returns true when the text of the resolved cell is
\* "TRUE" in any letter case, false when it is "FALSE" in any letter case,
\* and none otherwise: no row, no column, a blank cell, any other text, a
\* failed spreadsheet read.
C14_OrderStatus ==
    last.op = "get_order_status" =>
        LET row == GetRowForUser(worksheet, cells, last.user_name, "none")
            col == GetColumnForDate(worksheet, cells, last.date, "none")
            found == row.some /\ col.some /\ last.err = "none"
            text == cells[worksheet.title][row.val][col.val]
        IN  /\ last.value = "True" <=> (found /\ SameIgnoringCase(text, <<"T", "R", "U", "E">>))
            /\ last.value = "False" <=>
                  (found /\ SameIgnoringCase(text, <<"F", "A", "L", "S", "E">>))
            /\ last.value \in {"True", "False", "None"}

C14_Witness ==
    /\ last.op = "get_order_status" /\ last.value = "True"
    /\ last.user_name = AN
    /\ cells[worksheet.title][2][2] = <<"t", "r", "u", "e">>

\* the entries list_day_summary is to give for column col of a tab: one per
\* row below the header whose name is not blank, top to bottom
ParticipantRows(grid) == {r \in 2..Len(grid) : ~IsBlank(grid[r][1])}

IsSummaryOf(summary, grid, col) ==
    /\ Len(summary) = Cardinality(ParticipantRows(grid))
    /\ \A r \in ParticipantRows(grid) :
          LET k == Cardinality({q \in ParticipantRows(grid) : q <= r})
          IN  /\ summary[k].name = grid[r][1]
              /\ summary[k].has_order = SameIgnoringCase(grid[r][col], <<"T", "R", "U", "E">>)

\* C15 as stated: list_day_summary returns one entry for every non-blank
\* participant row below the header, top to bottom, none for blank rows,
\* has_order true exactly for a cell "TRUE" in any letter case - whatever the
\* date, also when the date has no column (the cells are absent).
C15_Original ==
    (last.op = "get_daily_summary" /\ last.err = "none") =>
        LET col == GetColumnForDate(worksheet, cells, last.date, "none")
        IN  IF col.some THEN IsSummaryOf(last.value, cells[worksheet.title], col.val)
            ELSE /\ Len(last.value) = Cardinality(ParticipantRows(cells[worksheet.title]))
                 /\ \A k \in 1..Len(last.value) : ~last.value[k].has_order

\* C15 amended: when the date has a column and the reads succeed,
\* list_day_summary returns one entry for every non-blank participant row
\* below the header, top to bottom, none for blank rows, has_order true
\* exactly for a cell "TRUE" in any letter case; when the date has no column
\* or a read fails it returns the empty sequence.
C15_DaySummary ==
    last.op = "get_daily_summary" =>
        LET col == GetColumnForDate(worksheet, cells, last.date, "none")
        IN  IF col.some /\ last.err = "none"
            THEN IsSummaryOf(last.value, cells[worksheet.title], col.val)
            ELSE last.value = <<>>

C15_Witness ==
    /\ last.op = "get_daily_summary"
    /\ Len(last.value) = 2
    /\ last.value[1] = [name |-> AN, has_order |-> TRUE]
    /\ cells[worksheet.title][2][2] = <<"t", "r", "u", "e">>
    /\ last.value[2] = [name |-> NGUYEN_DUY_THAI, has_order |-> FALSE]
    /\ cells[worksheet.title][4][2] = <<"y", "e", "s">>

\* C16: get_order_status and list_day_summary resolve row and column in the
\* tab of the date's month, whatever tab earlier calls left cached: they
\* read that tab and return what its cells say.
C16_Original ==
    (last.op \in {"get_order_status", "get_daily_summary"}
        /\ TabNameFor(last.date) \in DOMAIN cells) =>
        /\ last.tab = TabNameFor(last.date)
        /\ last.op = "get_order_status" =>
              last.value = GetOrderStatusCall(Handle(TabNameFor(last.date)), cells,
                                              last.user_name, last.date, last.err)
        /\ last.op = "get_daily_summary" =>
              last.value = GetDailySummaryCall(Handle(TabNameFor(last.date)), cells,
                                               last.date, last.err)

\* C17: whenever a tab handle is cached, its title is the tab name the
\* manager records as current (sheet_name).
C17_Original ==
    worksheet # NoWorksheet => worksheet.title = sheet_name

\* C18: for one participant, two successful marks for two different calendar
\* dates write two different cells (tab, row, column).
C18_Original ==
    [][ (/\ last.op = "mark_order" /\ last.result
         /\ last'.op = "mark_order" /\ last'.result
         /\ last.user_name = last'.user_name
         /\ last.date # last'.date) =>
            <<last.writes[1].tab, last.writes[1].row, last.writes[1].col>> #
            <<last'.writes[1].tab, last'.writes[1].row, last'.writes[1].col>> ]_vars

\* C20: after any sequence of marks the header row (row 1) and the name
\* column (column 1) of every tab are as they were.
C20_Original ==
    \A t \in DOMAIN cells :
        /\ cells[t][1] = InitialCells[t][1]
        /\ \A r \in 1..Len(cells[t]) : cells[t][r][1] = InitialCells[t][r][1]

\* C19: name normalization is idempotent: normalizing a normalized text
\* gives it back.
C19_NormalizeIdempotent ==
    (app.stage = "applied" /\ app.op = "remove_vietnamese_accents") =>
        app.twice = app.once

C19_Witness ==
    /\ app.stage = "applied" /\ app.op = "remove_vietnamese_accents"
    /\ app.text = <<"TAB", "D_stroke", "A_acute">>
    /\ app.once = <<"d", "a">>
    /\ app.twice = <<"d", "a">>

\* the calendar dates with day-of-month d that are on or before the reference
\* date and lie in the reference month or in the month before it
DatesOfDay(ref, d) ==
    LET before == IF ref.month = 1 THEN [year |-> ref.year - 1, month |-> 12]
                  ELSE [year |-> ref.year, month |-> ref.month - 1]
    IN  {x \in {Date(ref.year, ref.month, d), Date(before.year, before.month, d)} :
            /\ IsValidDate(x.year, x.month, x.day)
            /\ ToOrdinal(x) <= ToOrdinal(ref)}

\* C21: a date the resolver returns is never later than the reference date:
\* with an explicit day d it is the most recent date with day-of-month d on
\* or before the reference date within the reference month and the month
\* before it; with a yesterday hint it is the day before; otherwise it is the
\* reference date.
C21_NeverLaterThanReference ==
    (rd.stage = "resolved" /\ ~rd.result.raised) =>
        LET e == ExplicitDay(rd.day_number, rd.message)
            ref == rd.current_date
            got == rd.result.value
        IN  /\ IsValidDate(got.year, got.month, got.day)
            /\ ToOrdinal(got) <= ToOrdinal(ref)
            /\ IF e.some
               THEN /\ got \in DatesOfDay(ref, e.val)
                    /\ \A x \in DatesOfDay(ref, e.val) : ToOrdinal(x) <= ToOrdinal(got)
               ELSE IF rd.message.yesterday
               THEN ToOrdinal(got) = ToOrdinal(ref) - 1
               ELSE got = ref

C21_Witness ==
    /\ rd.stage = "resolved"
    /\ rd.current_date = Date(2026, 3, 1)
    /\ rd.day_number = Some(28)
    /\ rd.result = Returned(Date(2026, 2, 28))

====
